---------------------------- MODULE Spec2Model ----------------------------
(***************************************************************************)
(* The Statistics component of the trading journal                         *)
(* (src/src/components/TradeLog.tsx, lines 796-1278) as a state machine.   *)
(*                                                                         *)
(* State: the `trades` prop handed down by AppContent, the component's     *)
(* selectedPeriod, the wall clock read by `new Date()`, the memoized       *)
(* filteredTrades array (which three of the computations sort in place)    *)
(* and the memoized analytics computed from it, together with the stats    *)
(* that TradeLog and Dashboard compute from the same prop.                 *)
(*                                                                         *)
(* Conventions of the model:                                               *)
(*  - every instant (timestamp, openDate, closeDate, now) is an integer    *)
(*    number of minutes since the epoch, in UTC; the code's millisecond    *)
(*    arithmetic is the same arithmetic scaled by 60000;                   *)
(*  - a JavaScript number that results from a division is an exact         *)
(*    rational [n, d] in lowest terms with d > 0; d = 0 stands for the     *)
(*    non-finite results of a division by zero (n = 1: Infinity,           *)
(*    n = -1: -Infinity, n = 0: NaN).  Floating-point rounding is not      *)
(*    modelled;                                                            *)
(*  - prices, lot sizes and results are integers.                          *)
(***************************************************************************)
EXTENDS Integers, Sequences, FiniteSets, TLC

\* ------------------------------------------------------------------ bounds

\* Longest trade list of the main specification.
MaxTrades == 3

\* Longest trade list of the rolling-window specification.
MaxRollingTrades == 21

\* How many minutes the wall clock advances at most.
MaxTicks == 1
MaxAccountFetches == 2      \* fetchAccounts calls in flight at once
MaxDefaultInserts == 2      \* inserts of the default account
MaxAccountChanges == 1      \* changes to the table by other sessions
MaxTradeFetches == 3        \* fetchTrades calls of one session
MaxSampleInserts == 2       \* inserts of the sample trades
MaxTradeChanges == 1        \* rows inserted by other sessions

\* ------------------------------------------------------- program constants

WeekDays == 7

MonthDays == 30

QuarterDays == 90

RollingWindowMax == 20

RollingWindowMin == 5

PipScale == 10000

ProfitFactorCap == 999

PlannedRRLimit == 10
SampleTrades == 4

HoursInDay == 24

\* closeDate?: Date -- the value of an absent closeDate (undefined).
NoDate == -1

DayMin == 24 * 60

\* The wall clock when the component is first rendered: day 200 after the
\* epoch (a Monday), 12:00.
Now0 == 200 * DayMin + 12 * 60

\* ----------------------------------------------------------------- numbers

Abs(x) == IF x < 0 THEN 0 - x ELSE x

Max(a, b) == IF a >= b THEN a ELSE b

Min(a, b) == IF a <= b THEN a ELSE b

Sign(x) == IF x > 0 THEN 1 ELSE IF x < 0 THEN -1 ELSE 0

RECURSIVE GCD(_, _)
GCD(a, b) == IF b = 0 THEN a ELSE GCD(b, a % b)

\* a / b on JavaScript numbers.
Frac(a, b) ==
    IF b = 0 THEN [n |-> Sign(a), d |-> 0]
    ELSE LET g == GCD(Abs(a), Abs(b))
             s == IF b < 0 THEN -1 ELSE 1
         IN  [n |-> s * (a \div g), d |-> s * (b \div g)]

Num(k) == [n |-> k, d |-> 1]

IsFinite(x) == x.d # 0

\* The four operations cancel common factors before they multiply, so
\* that the intermediate integers stay small.
RAdd(x, y) ==
    IF x.d = 0 \/ y.d = 0 THEN Frac(x.n * y.d + y.n * x.d, 0)
    ELSE LET g == GCD(x.d, y.d)
         IN  Frac(x.n * (y.d \div g) + y.n * (x.d \div g), (x.d \div g) * y.d)

RSub(x, y) == RAdd(x, [n |-> 0 - y.n, d |-> y.d])

RMul(x, y) ==
    IF x.d = 0 \/ y.d = 0 THEN Frac(x.n * y.n, 0)
    ELSE LET g1 == GCD(Abs(x.n), y.d)
             g2 == GCD(Abs(y.n), x.d)
         IN  Frac((x.n \div g1) * (y.n \div g2), (x.d \div g2) * (y.d \div g1))

RDiv(x, y) ==
    IF x.d = 0 \/ y.d = 0 \/ y.n = 0 THEN Frac(x.n * y.d, x.d * y.n)
    ELSE RMul(x, Frac(y.d, y.n))

RAbs(x) == [n |-> Abs(x.n), d |-> x.d]

\* Comparisons of finite numbers.
RLt(x, y) == x.n * y.d < y.n * x.d

RLe(x, y) == x.n * y.d <= y.n * x.d

RMax(x, y) == IF RLe(y, x) THEN x ELSE y

\* ------------------------------------------------------------------ trades

Periods == {"all", "week", "month", "quarter"}

Trade(st, res, ts, od, cd, ep, sl, tp, ls) ==
    [status |-> st, result |-> res, timestamp |-> ts, openDate |-> od,
     closeDate |-> cd, entryPrice |-> ep, stopLoss |-> sl, takeProfit |-> tp,
     lotSize |-> ls]

\* The trades the model draws from.  The timestamps sit on the period
\* boundaries of the first render: Now0 - 7d is the first instant of the
\* week at Now0 and outside the week at Now0 + 1.
TradePool ==
    { \* a large win one hour ago, 30 minutes long, planned R:R 2
      Trade("closed", 1000, Now0 - 60, Now0 - 90, Now0 - 60, 100, 90, 120, 1),
      \* a loss with the same timestamp, an hour and a half long, zero risk
      Trade("closed", -20, Now0 - 60, Now0 - 150, Now0 - 60, 100, 100, 120, 1),
      \* an open trade carrying a result
      Trade("open", 70, Now0 - 60, Now0 - 60, NoDate, 100, 90, 110, 1),
      \* break-even on the week boundary, no closeDate, no stopLoss
      Trade("closed", 0, Now0 - WeekDays * DayMin,
            Now0 - WeekDays * DayMin, NoDate, 100, 0, 120, 1),
      \* a win on the week boundary, two days long, planned R:R exactly 10
      Trade("closed", 30, Now0 - WeekDays * DayMin,
            Now0 - WeekDays * DayMin - 2 * DayMin,
            Now0 - WeekDays * DayMin, 100, 99, 110, 2),
      \* a loss on the month boundary (a Saturday), no closeDate, no
      \* takeProfit
      Trade("closed", -40, Now0 - MonthDays * DayMin,
            Now0 - MonthDays * DayMin - 59, NoDate, 100, 95, 0, 1),
      \* a win on the quarter boundary (a Tuesday), ten hours long,
      \* planned R:R 1/2
      Trade("closed", 10, Now0 - QuarterDays * DayMin,
            Now0 - QuarterDays * DayMin - 600, Now0 - QuarterDays * DayMin,
            100, 90, 105, 1),
      \* a small loss older than every period (a Sunday), 30 minutes long
      Trade("closed", -1, Now0 - 99 * DayMin, Now0 - 99 * DayMin - 30,
            Now0 - 99 * DayMin, 100, 110, 80, 1) }

\* The trades of the rolling-window specification: a recent win and an
\* older loss.
RollingPool ==
    { Trade("closed", 50, Now0 - 60, Now0 - 90, Now0 - 60, 100, 90, 120, 1),
      Trade("closed", -10, Now0 - 99 * DayMin, Now0 - 99 * DayMin - 5,
            Now0 - 99 * DayMin, 100, 110, 80, 1) }

\* ----------------------------------------------------------------- sorting

\* Array.prototype.sort is stable: equal timestamps keep their order.
InsertAsc(s, t) ==
    LET k == Cardinality({i \in 1..Len(s) : s[i].timestamp <= t.timestamp})
    IN  SubSeq(s, 1, k) \o <<t>> \o SubSeq(s, k + 1, Len(s))

InsertDesc(s, t) ==
    LET k == Cardinality({i \in 1..Len(s) : s[i].timestamp >= t.timestamp})
    IN  SubSeq(s, 1, k) \o <<t>> \o SubSeq(s, k + 1, Len(s))

RECURSIVE SortTimestampAsc(_)
\* .sort((a, b) => a.timestamp - b.timestamp)
SortTimestampAsc(s) ==
    IF s = <<>> THEN <<>>
    ELSE InsertAsc(SortTimestampAsc(SubSeq(s, 1, Len(s) - 1)), s[Len(s)])

RECURSIVE SortTimestampDesc(_)
\* .sort((a, b) => b.timestamp - a.timestamp)
SortTimestampDesc(s) ==
    IF s = <<>> THEN <<>>
    ELSE InsertDesc(SortTimestampDesc(SubSeq(s, 1, Len(s) - 1)), s[Len(s)])

\* ---------------------------------------------------------- filteredTrades

\* IsClosed that lets open trades through.
IsClosedOrOpen(t) == t.status \in {"closed", "open"}

IsClosed(t) == t.status = "closed"

\* weekAgo, monthAgo, quarterAgo: now - days * 24 * 60 * 60 * 1000.
PeriodStart(period, n) ==
    CASE period = "week" -> n - WeekDays * DayMin
      [] period = "month" -> n - MonthDays * DayMin
      [] period = "quarter" -> n - QuarterDays * DayMin

\* InPeriod with the boundary instant left out (> for >=).
InPeriodExclusive(t, period, n) ==
    IF period \in {"week", "month", "quarter"}
    THEN t.timestamp > PeriodStart(period, n)
    ELSE TRUE

InPeriod(t, period, n) ==
    IF period \in {"week", "month", "quarter"}
    THEN t.timestamp >= PeriodStart(period, n)
    ELSE TRUE

FilterTrades(tr, period, n) ==
    LET closedTrades == SelectSeq(tr, IsClosed)
    IN  SelectSeq(closedTrades, LAMBDA t : InPeriod(t, period, n))

\* --------------------------------------------------------- streaks, drawdown

IsWin(t) == t.result > 0

IsLoss(t) == t.result < 0

RECURSIVE SumResult(_)
\* reduce((sum, t) => sum + t.result, 0)
SumResult(s) == IF s = <<>> THEN 0 ELSE s[1].result + SumResult(Tail(s))

RECURSIVE WalkWins(_, _, _)
WalkWins(s, currentWins, maxWins) ==
    IF s = <<>> THEN maxWins
    ELSE IF s[1].result > 0
         THEN WalkWins(Tail(s), currentWins + 1, Max(maxWins, currentWins + 1))
         ELSE WalkWins(Tail(s), 0, maxWins)

RECURSIVE WalkNonLosses(_, _, _)
WalkNonLosses(s, currentWins, maxWins) ==
    IF s = <<>> THEN maxWins
    ELSE IF s[1].result >= 0
         THEN WalkNonLosses(Tail(s), currentWins + 1, Max(maxWins, currentWins + 1))
         ELSE WalkNonLosses(Tail(s), 0, maxWins)

\* calculateConsecutiveWins with a break-even trade continuing the run
\* (>= for >).
calculateConsecutiveNonLosses(tr) ==
    IF Len(tr) = 0 THEN 0 ELSE WalkNonLosses(SortTimestampAsc(tr), 0, 0)

calculateConsecutiveWins(tr) ==
    IF Len(tr) = 0 THEN 0 ELSE WalkWins(SortTimestampAsc(tr), 0, 0)

RECURSIVE WalkLosses(_, _, _)
WalkLosses(s, currentLosses, maxLosses) ==
    IF s = <<>> THEN maxLosses
    ELSE IF s[1].result < 0
         THEN WalkLosses(Tail(s), currentLosses + 1,
                         Max(maxLosses, currentLosses + 1))
         ELSE WalkLosses(Tail(s), 0, maxLosses)

calculateConsecutiveLosses(tr) ==
    IF Len(tr) = 0 THEN 0 ELSE WalkLosses(SortTimestampAsc(tr), 0, 0)

\* DrawdownStep with the drawdown taken as the distance to the peak of
\* the step before.
DrawdownStepStalePeak(acc, trade) ==
    LET runningTotal == acc.runningTotal + trade.result
        peak == Max(acc.peak, runningTotal)
        drawdown == Abs(acc.peak - runningTotal)
    IN  [runningTotal |-> runningTotal,
         peak |-> peak,
         maxDrawdown |-> Max(acc.maxDrawdown, drawdown),
         maxDrawdownPercent |->
             IF peak > 0
             THEN RMax(acc.maxDrawdownPercent,
                       RMul(Frac(drawdown, peak), Num(100)))
             ELSE acc.maxDrawdownPercent]

\* One step of the forEach of calculateMaxDrawdown.
DrawdownStep(acc, trade) ==
    LET runningTotal == acc.runningTotal + trade.result
        peak == Max(acc.peak, runningTotal)
        drawdown == peak - runningTotal
    IN  [runningTotal |-> runningTotal,
         peak |-> peak,
         maxDrawdown |-> Max(acc.maxDrawdown, drawdown),
         maxDrawdownPercent |->
             IF peak > 0
             THEN RMax(acc.maxDrawdownPercent,
                       RMul(Frac(drawdown, peak), Num(100)))
             ELSE acc.maxDrawdownPercent]

RECURSIVE WalkDrawdown(_, _)
WalkDrawdown(s, acc) ==
    IF s = <<>> THEN acc ELSE WalkDrawdown(Tail(s), DrawdownStep(acc, s[1]))

\* calculateMaxDrawdown that walks the array in the order it is given.
calculateMaxDrawdownUnsorted(tr) ==
    LET acc == WalkDrawdown(tr,
                            [runningTotal |-> 0, peak |-> 0, maxDrawdown |-> 0,
                             maxDrawdownPercent |-> Num(0)])
    IN  [maxDrawdown |-> acc.maxDrawdown,
         maxDrawdownPercent |-> acc.maxDrawdownPercent]

\* The value returned; the array it is given is left sorted (see Render).
calculateMaxDrawdown(tr) ==
    LET acc == WalkDrawdown(SortTimestampAsc(tr),
                            [runningTotal |-> 0, peak |-> 0, maxDrawdown |-> 0,
                             maxDrawdownPercent |-> Num(0)])
    IN  [maxDrawdown |-> acc.maxDrawdown,
         maxDrawdownPercent |-> acc.maxDrawdownPercent]

RECURSIVE CountLeading(_, _)
\* The for loop of calculateCurrentStreak.
CountLeading(s, lastResult) ==
    IF s = <<>> THEN 0
    ELSE IF (lastResult > 0 /\ s[1].result > 0)
            \/ (lastResult < 0 /\ s[1].result < 0)
         THEN 1 + CountLeading(Tail(s), lastResult)
         ELSE 0

calculateCurrentStreak(tr) ==
    IF Len(tr) = 0 THEN [type |-> "none", count |-> 0]
    ELSE LET sortedTrades == SortTimestampDesc(tr)
             lastResult == sortedTrades[1].result
         IN  [type |-> IF lastResult > 0 THEN "win" ELSE "loss",
              count |-> CountLeading(sortedTrades, lastResult)]

\* Hours between openDate and closeDate, averaged over the trades that
\* have a closeDate.
calculateAvgDuration(tr) ==
    LET withClose == SelectSeq(tr, LAMBDA t : t.closeDate # NoDate)
        SumMinutes[i \in 0..Len(withClose)] ==
            IF i = 0 THEN 0
            ELSE SumMinutes[i - 1] + (withClose[i].closeDate - withClose[i].openDate)
    IN  IF Len(withClose) > 0
        THEN Frac(SumMinutes[Len(withClose)], 60 * Len(withClose))
        ELSE Num(0)

\* ------------------------------------------------------------ advancedStats

EmptyStats ==
    [totalPnL |-> 0, winRate |-> Num(0), avgWin |-> Num(0), avgLoss |-> Num(0),
     largestWin |-> 0, largestLoss |-> 0, profitFactor |-> Num(0),
     consecutiveWins |-> 0, consecutiveLosses |-> 0, totalTrades |-> 0,
     winTrades |-> 0, lossTrades |-> 0, expectancy |-> Num(0), avgRR |-> Num(0),
     maxDrawdown |-> 0, maxDrawdownPercent |-> Num(0), avgDuration |-> Num(0),
     currentStreak |-> [type |-> "none", count |-> 0], kellyPercent |-> Num(0)]

\* WinRate over the decided trades only: break-even trades left out of
\* the denominator.
WinRateOfDecided(ft) ==
    RMul(Frac(Len(SelectSeq(ft, IsWin)),
              Len(SelectSeq(ft, IsWin)) + Len(SelectSeq(ft, IsLoss))),
         Num(100))

WinRate(ft) == RMul(Frac(Len(SelectSeq(ft, IsWin)), Len(ft)), Num(100))

AvgWin(ft) ==
    LET winTrades == SelectSeq(ft, IsWin)
    IN  IF Len(winTrades) > 0
        THEN Frac(SumResult(winTrades), Len(winTrades))
        ELSE Num(0)

AvgLoss(ft) ==
    LET lossTrades == SelectSeq(ft, IsLoss)
    IN  IF Len(lossTrades) > 0
        THEN RAbs(Frac(SumResult(lossTrades), Len(lossTrades)))
        ELSE Num(0)

RECURSIVE MaxResult(_)
MaxResult(s) ==
    IF Len(s) = 1 THEN s[1].result ELSE Max(s[1].result, MaxResult(Tail(s)))

RECURSIVE MinResult(_)
MinResult(s) ==
    IF Len(s) = 1 THEN s[1].result ELSE Min(s[1].result, MinResult(Tail(s)))

\* ProfitFactor without the sentinel: the gross profit itself when there
\* is no loss.
ProfitFactorNoSentinel(ft) ==
    LET totalWinAmount == RMul(AvgWin(ft), Num(Len(SelectSeq(ft, IsWin))))
        totalLossAmount == RMul(AvgLoss(ft), Num(Len(SelectSeq(ft, IsLoss))))
    IN  IF RLt(Num(0), totalLossAmount)
        THEN RDiv(totalWinAmount, totalLossAmount)
        ELSE totalWinAmount

\* profitFactor before the cap of the returned object.
ProfitFactor(ft) ==
    LET totalWinAmount == RMul(AvgWin(ft), Num(Len(SelectSeq(ft, IsWin))))
        totalLossAmount == RMul(AvgLoss(ft), Num(Len(SelectSeq(ft, IsLoss))))
    IN  IF RLt(Num(0), totalLossAmount)
        THEN RDiv(totalWinAmount, totalLossAmount)
        ELSE IF RLt(Num(0), totalWinAmount) THEN Num(ProfitFactorCap) ELSE Num(0)

\* CapProfitFactor that returns the ratio as it is.
KeepProfitFactor(pf) == pf

CapProfitFactor(pf) ==
    IF RLt(Num(ProfitFactorCap), pf) THEN Num(ProfitFactorCap) ELSE pf

Expectancy(ft) ==
    IF Len(ft) > 0
    THEN RSub(RMul(RDiv(WinRate(ft), Num(100)), AvgWin(ft)),
              RMul(RDiv(RSub(Num(100), WinRate(ft)), Num(100)), AvgLoss(ft)))
    ELSE Num(0)

\* AvgRR without the guard on avgLoss.
AvgRRUnguarded(ft) == RDiv(AvgWin(ft), AvgLoss(ft))

AvgRR(ft) ==
    IF RLt(Num(0), AvgLoss(ft)) THEN RDiv(AvgWin(ft), AvgLoss(ft)) ELSE Num(0)

\* KellyPercent clamped at 0 from below.
KellyPercentClamped(ft) ==
    IF RLt(Num(0), WinRate(ft)) /\ RLt(Num(0), AvgLoss(ft))
    THEN RMax(Num(0),
              RMul(RSub(RDiv(WinRate(ft), Num(100)),
                        RDiv(RDiv(RSub(Num(100), WinRate(ft)), Num(100)), AvgRR(ft))),
                   Num(100)))
    ELSE Num(0)

KellyPercent(ft) ==
    IF RLt(Num(0), WinRate(ft)) /\ RLt(Num(0), AvgLoss(ft))
    THEN RMul(RSub(RDiv(WinRate(ft), Num(100)),
                   RDiv(RDiv(RSub(Num(100), WinRate(ft)), Num(100)), AvgRR(ft))),
              Num(100))
    ELSE Num(0)

\* The advancedStats memo; ft is filteredTrades as the memo finds it.
AdvancedStats(ft) ==
    IF Len(ft) = 0 THEN EmptyStats
    ELSE LET winTrades == SelectSeq(ft, IsWin)
             lossTrades == SelectSeq(ft, IsLoss)
             dd == calculateMaxDrawdown(ft)
         IN  [totalPnL |-> SumResult(ft),
              winRate |-> WinRate(ft),
              avgWin |-> AvgWin(ft),
              avgLoss |-> AvgLoss(ft),
              largestWin |-> IF Len(winTrades) > 0 THEN MaxResult(winTrades) ELSE 0,
              largestLoss |-> IF Len(lossTrades) > 0 THEN MinResult(lossTrades) ELSE 0,
              profitFactor |-> CapProfitFactor(ProfitFactor(ft)),
              consecutiveWins |-> calculateConsecutiveWins(ft),
              consecutiveLosses |-> calculateConsecutiveLosses(ft),
              totalTrades |-> Len(ft),
              winTrades |-> Len(winTrades),
              lossTrades |-> Len(lossTrades),
              expectancy |-> Expectancy(ft),
              avgRR |-> AvgRR(ft),
              maxDrawdown |-> dd.maxDrawdown,
              maxDrawdownPercent |-> dd.maxDrawdownPercent,
              avgDuration |-> calculateAvgDuration(ft),
              \* calculateMaxDrawdown has sorted ft in place by now
              currentStreak |-> calculateCurrentStreak(SortTimestampAsc(ft)),
              kellyPercent |-> KellyPercent(ft)]

\* -------------------------------------------------------- dayOfWeekAnalysis

\* Date.getDay(): 0 is Sunday; the epoch was a Thursday.
GetDay(ts) == ((ts \div DayMin) + 4) % 7

AllDays == <<"Monday", "Tuesday", "Wednesday", "Thursday", "Friday">>

\* DayMap with the week starting on Monday (getDay() starts it on Sunday).
DayMapMondayFirst ==
    [k \in 0..6 |->
        CASE k = 0 -> "Monday" [] k = 1 -> "Tuesday" [] k = 2 -> "Wednesday"
          [] k = 3 -> "Thursday" [] k = 4 -> "Friday" [] k = 5 -> "Saturday"
          [] k = 6 -> "Sunday"]

DayMap ==
    [k \in 0..6 |->
        CASE k = 0 -> "Sunday" [] k = 1 -> "Monday" [] k = 2 -> "Tuesday"
          [] k = 3 -> "Wednesday" [] k = 4 -> "Thursday" [] k = 5 -> "Friday"
          [] k = 6 -> "Saturday"]

\* The reduce of dayOfWeekAnalysis: day name -> {trades, wins, totalPnL},
\* defined only on the days that have a trade.
RECURSIVE DayStats(_)
DayStats(ft) ==
    IF ft = <<>> THEN <<>>
    ELSE LET acc == DayStats(SubSeq(ft, 1, Len(ft) - 1))
             trade == ft[Len(ft)]
             day == DayMap[GetDay(trade.timestamp)]
             old == IF day \in DOMAIN acc THEN acc[day]
                    ELSE [trades |-> 0, wins |-> 0, totalPnL |-> 0]
         IN  IF day = "Saturday" \/ day = "Sunday" THEN acc
             ELSE [d \in (DOMAIN acc) \cup {day} |->
                     IF d = day
                     THEN [trades |-> old.trades + 1,
                           wins |-> old.wins + (IF trade.result > 0 THEN 1 ELSE 0),
                           totalPnL |-> old.totalPnL + trade.result]
                     ELSE acc[d]]

DayOfWeekAnalysis(ft) ==
    LET dayStats == DayStats(ft)
    IN  [i \in 1..Len(AllDays) |->
          LET day == AllDays[i]
              has == day \in DOMAIN dayStats
          IN  [fullDay |-> day,
               trades |-> IF has THEN dayStats[day].trades ELSE 0,
               winRate |-> IF has /\ dayStats[day].trades > 0
                           THEN RMul(Frac(dayStats[day].wins, dayStats[day].trades),
                                     Num(100))
                           ELSE Num(0),
               avgPnL |-> IF has /\ dayStats[day].trades > 0
                          THEN Frac(dayStats[day].totalPnL, dayStats[day].trades)
                          ELSE Num(0),
               totalPnL |-> IF has THEN dayStats[day].totalPnL ELSE 0]]

\* ----------------------------------------------------------- rollingWinRate

\* One element of the .map(): the point for index (counted from 1 here,
\* from 0 in the code), or null (<<>> here) before the first full window.
\* RollingPoint that starts one trade late (index < windowSize).
RollingPointLate(arr, index, windowSize) ==
    IF index - 1 < windowSize THEN <<>>
    ELSE LET window == SubSeq(arr, index - windowSize + 1, index)
         IN  <<[trade |-> index,
                winRate |-> RMul(Frac(Len(SelectSeq(window, IsWin)), windowSize),
                                 Num(100))]>>

RollingPoint(arr, index, windowSize) ==
    IF index - 1 < windowSize - 1 THEN <<>>
    ELSE LET window == SubSeq(arr, index - windowSize + 1, index)
         IN  <<[trade |-> index,
                winRate |-> RMul(Frac(Len(SelectSeq(window, IsWin)), windowSize),
                                 Num(100))]>>

RECURSIVE ConcatPoints(_, _, _)
ConcatPoints(arr, index, windowSize) ==
    IF index > Len(arr) THEN <<>>
    ELSE RollingPoint(arr, index, windowSize)
         \o ConcatPoints(arr, index + 1, windowSize)

\* RollingWinRate with the window fixed at 20 instead of min(20, length).
RollingWinRateFixedWindow(ft) ==
    LET windowSize == RollingWindowMax
    IN  IF Len(ft) < RollingWindowMin THEN <<>>
        ELSE ConcatPoints(SortTimestampAsc(ft), 1, windowSize)

\* ft is filteredTrades as the memo finds it; the memo sorts it in place.
RollingWinRate(ft) ==
    LET windowSize == Min(RollingWindowMax, Len(ft))
    IN  IF windowSize < RollingWindowMin THEN <<>>
        ELSE ConcatPoints(SortTimestampAsc(ft), 1, windowSize)

\* -------------------------------------------------------- riskRewardScatter

PlannedRR(t) ==
    LET risk == Abs(t.entryPrice - t.stopLoss) * t.lotSize * PipScale
        reward == Abs(t.takeProfit - t.entryPrice) * t.lotSize * PipScale
    IN  IF risk > 0 THEN Frac(reward, risk) ELSE Num(0)

HasStopAndTarget(t) == t.stopLoss # 0 /\ t.takeProfit # 0

\* RRInRange with the upper limit included (<= for <).
RRInRangeInclusive(row) ==
    RLt(Num(0), row.plannedRR) /\ RLe(row.plannedRR, Num(PlannedRRLimit))

RRInRange(row) ==
    RLt(Num(0), row.plannedRR) /\ RLt(row.plannedRR, Num(PlannedRRLimit))

RRRow(t) ==
    [plannedRR |-> PlannedRR(t), actualPnL |-> t.result,
     outcome |-> IF t.result > 0 THEN "Win" ELSE "Loss"]

RiskRewardScatter(ft) ==
    LET kept == SelectSeq(ft, HasStopAndTarget)
        rows == [i \in 1..Len(kept) |-> RRRow(kept[i])]
    IN  SelectSeq(rows, RRInRange)

\* ------------------------------------------------------- dates and numbers

IsLeapYear(y) == (y % 4 = 0 /\ y % 100 # 0) \/ y % 400 = 0

DaysInYear(y) == IF IsLeapYear(y) THEN 366 ELSE 365

\* The months are numbered from 0, as getMonth() numbers them.
DaysInMonth(y, m) ==
    IF m = 1 THEN (IF IsLeapYear(y) THEN 29 ELSE 28)
    ELSE IF m \in {3, 5, 8, 10} THEN 30 ELSE 31

RECURSIVE CivilYear(_, _)
CivilYear(y, d) ==
    IF d < DaysInYear(y) THEN [year |-> y, day |-> d]
    ELSE CivilYear(y + 1, d - DaysInYear(y))

RECURSIVE CivilMonth(_, _, _)
CivilMonth(y, m, d) ==
    IF d < DaysInMonth(y, m) THEN [month |-> m, date |-> d + 1]
    ELSE CivilMonth(y, m + 1, d - DaysInMonth(y, m))

\* getFullYear(), getMonth(), getDate() of an instant.
CivilDate(ts) ==
    LET yd == CivilYear(1970, ts \div DayMin)
        md == CivilMonth(yd.year, 0, yd.day)
    IN  [year |-> yd.year, month |-> md.month, date |-> md.date]

\* Date.getHours()
GetHours(ts) == (ts \div 60) % HoursInDay

MonthNames ==
    <<"Jan", "Feb", "Mar", "Apr", "May", "Jun",
      "Jul", "Aug", "Sep", "Oct", "Nov", "Dec">>

\* toLocaleString('en-US', { month: 'short', year: 'numeric' })
MonthLabel(year, month) == MonthNames[month + 1] \o " " \o ToString(year)

\* toLocaleDateString('en-US')
ToLocaleDateString(ts) ==
    LET c == CivilDate(ts)
    IN  ToString(c.month + 1) \o "/" \o ToString(c.date) \o "/" \o ToString(c.year)

\* `${hour.toString().padStart(2, '0')}:00`
HourLabel(hour) ==
    (IF hour < 10 THEN "0" \o ToString(hour) ELSE ToString(hour)) \o ":00"

\* Number(x.toFixed(2)): x rounded to two decimals, halves away from zero.
ToFixed2(x) ==
    Frac(Sign(x.n) * ((Abs(x.n) * 200 + x.d) \div (2 * x.d)), 100)

RECURSIVE RSum(_)
\* reduce((sum, d) => sum + d, 0) over numbers
RSum(s) == IF s = <<>> THEN Num(0) ELSE RAdd(s[1], RSum(Tail(s)))

\* --------------------------------------------------------------- equityData

RECURSIVE WalkEquity(_, _, _, _)
WalkEquity(s, index, runningTotal, peak) ==
    IF s = <<>> THEN <<>>
    ELSE LET total == runningTotal + s[1].result
             newPeak == Max(peak, total)
             drawdown == newPeak - total
             drawdownPercent == IF newPeak > 0
                                THEN RMul(Frac(drawdown, newPeak), Num(100))
                                ELSE Num(0)
         IN  <<[trade |-> index + 1,
                equity |-> total,
                drawdown |-> 0 - drawdown,
                drawdownPercent |-> RSub(Num(0), drawdownPercent),
                date |-> ToLocaleDateString(s[1].timestamp)]>>
             \o WalkEquity(Tail(s), index + 1, total, newPeak)

\* Sorts filteredTrades in place, then maps it; called with the sorted array.
EquityData(sorted) == WalkEquity(sorted, 0, 0, 0)

\* -------------------------------------------------------------- monthlyData

MonthIndex(ts) == LET c == CivilDate(ts) IN c.year * 12 + c.month

RECURSIVE AscendingSeq(_)
\* .sort((a, b) => a.sortDate.getTime() - b.sortDate.getTime()) over the
\* month buckets, whose sortDates are distinct
AscendingSeq(S) ==
    IF S = {} THEN <<>>
    ELSE LET m == CHOOSE x \in S : \A y \in S : x <= y
         IN  <<m>> \o AscendingSeq(S \ {m})

MonthRow(ft, mi) ==
    LET bucket == SelectSeq(ft, LAMBDA t : MonthIndex(t.timestamp) = mi)
        profit == SumResult(bucket)
    IN  [month |-> MonthLabel(mi \div 12, mi % 12),
         profit |-> ToFixed2(Num(profit)),
         trades |-> Len(bucket),
         winRate |-> IF Len(bucket) > 0
                     THEN RMul(Frac(Len(SelectSeq(bucket, IsWin)), Len(bucket)), Num(100))
                     ELSE Num(0),
         fill |-> IF profit >= 0 THEN "win" ELSE "loss"]

MonthlyData(ft) ==
    IF Len(ft) = 0 THEN <<>>
    ELSE LET keys == AscendingSeq({MonthIndex(ft[i].timestamp) : i \in 1..Len(ft)})
         IN  [k \in 1..Len(keys) |-> MonthRow(ft, keys[k])]

\* -------------------------------------------------------- tradeDurationData

\* One point of the duration scatter; the duration is shown in minutes
\* below an hour, in hours below a day, in days from there on.
DurationRow(t) ==
    LET durationMinutes == t.closeDate - t.openDate
        durationHours == Frac(durationMinutes, 60)
        shown == IF durationMinutes < 60
                 THEN [duration |-> Num(durationMinutes), unit |-> "minutes"]
                 ELSE IF RLt(durationHours, Num(HoursInDay))
                      THEN [duration |-> durationHours, unit |-> "hours"]
                      ELSE [duration |-> RDiv(durationHours, Num(HoursInDay)),
                            unit |-> "days"]
    IN  [duration |-> shown.duration,
         unit |-> shown.unit,
         profit |-> ToFixed2(Num(t.result)),
         type |-> IF t.result >= 0 THEN "win" ELSE "loss"]

InsertDurationAsc(s, row) ==
    LET k == Cardinality({i \in 1..Len(s) : RLe(s[i].duration, row.duration)})
    IN  SubSeq(s, 1, k) \o <<row>> \o SubSeq(s, k + 1, Len(s))

RECURSIVE SortDurationAsc(_)
\* .sort((a, b) => a.duration - b.duration)
SortDurationAsc(s) ==
    IF s = <<>> THEN <<>>
    ELSE InsertDurationAsc(SortDurationAsc(SubSeq(s, 1, Len(s) - 1)), s[Len(s)])

\* HasCloseDate that tests the openDate alone.
HasOpenDate(t) == t.openDate # NoDate

HasCloseDate(t) == t.closeDate # NoDate

TradeDurationData(ft) ==
    LET kept == SelectSeq(ft, HasCloseDate)
    IN  SortDurationAsc([i \in 1..Len(kept) |-> DurationRow(kept[i])])

\* ------------------------------------------------------------ trendLineData

RECURSIVE RMinOf(_)
\* Math.min(...) of a non-empty list
RMinOf(s) ==
    IF Len(s) = 1 THEN s[1]
    ELSE LET m == RMinOf(Tail(s)) IN IF RLe(s[1], m) THEN s[1] ELSE m

RECURSIVE RMaxOf(_)
\* Math.max(...) of a non-empty list
RMaxOf(s) == IF Len(s) = 1 THEN s[1] ELSE RMax(s[1], RMaxOf(Tail(s)))

\* TrendLineData without the isFinite test.
TrendLineDataUnchecked(data) ==
    IF Len(data) < 2 THEN <<>>
    ELSE LET n == Num(Len(data))
             xs == [i \in 1..Len(data) |-> data[i].duration]
             ys == [i \in 1..Len(data) |-> data[i].profit]
             sumX == RSum(xs)
             sumY == RSum(ys)
             sumXY == RSum([i \in 1..Len(data) |-> RMul(xs[i], ys[i])])
             sumXX == RSum([i \in 1..Len(data) |-> RMul(xs[i], xs[i])])
             slope == RDiv(RSub(RMul(n, sumXY), RMul(sumX, sumY)),
                           RSub(RMul(n, sumXX), RMul(sumX, sumX)))
             intercept == RDiv(RSub(sumY, RMul(slope, sumX)), n)
         IN  <<[duration |-> RMinOf(xs),
                trendProfit |-> RAdd(RMul(slope, RMinOf(xs)), intercept)],
               [duration |-> RMaxOf(xs),
                trendProfit |-> RAdd(RMul(slope, RMaxOf(xs)), intercept)]>>

\* The least-squares line through the duration scatter, as its two end
\* points.
TrendLineData(data) ==
    IF Len(data) < 2 THEN <<>>
    ELSE LET n == Num(Len(data))
             xs == [i \in 1..Len(data) |-> data[i].duration]
             ys == [i \in 1..Len(data) |-> data[i].profit]
             sumX == RSum(xs)
             sumY == RSum(ys)
             sumXY == RSum([i \in 1..Len(data) |-> RMul(xs[i], ys[i])])
             sumXX == RSum([i \in 1..Len(data) |-> RMul(xs[i], xs[i])])
             slope == RDiv(RSub(RMul(n, sumXY), RMul(sumX, sumY)),
                           RSub(RMul(n, sumXX), RMul(sumX, sumX)))
             intercept == RDiv(RSub(sumY, RMul(slope, sumX)), n)
             minDuration == RMinOf(xs)
             maxDuration == RMaxOf(xs)
         IN  IF ~IsFinite(slope) \/ ~IsFinite(intercept) THEN <<>>
             ELSE <<[duration |-> minDuration,
                     trendProfit |-> RAdd(RMul(slope, minDuration), intercept)],
                    [duration |-> maxDuration,
                     trendProfit |-> RAdd(RMul(slope, maxDuration), intercept)]>>

\* ----------------------------------------------------------- hourlyAnalysis

\* HourStats keyed by the hour of the timestamp instead of the openDate.
HourStatsDecided(ft, hour) ==
    LET bucket == SelectSeq(ft, LAMBDA t : GetHours(t.openDate) = hour
                                            /\ t.result # 0)
    IN  [hour |-> HourLabel(hour),
         trades |-> Len(bucket),
         winRate |-> IF Len(bucket) > 0
                     THEN RMul(Frac(Len(SelectSeq(bucket, IsWin)), Len(bucket)), Num(100))
                     ELSE Num(0),
         avgPnL |-> IF Len(bucket) > 0
                    THEN Frac(SumResult(bucket), Len(bucket))
                    ELSE Num(0),
         totalPnL |-> SumResult(bucket)]

HourStatsByTimestamp(ft, hour) ==
    LET bucket == SelectSeq(ft, LAMBDA t : GetHours(t.timestamp) = hour)
    IN  [hour |-> HourLabel(hour),
         trades |-> Len(bucket),
         winRate |-> IF Len(bucket) > 0
                     THEN RMul(Frac(Len(SelectSeq(bucket, IsWin)), Len(bucket)), Num(100))
                     ELSE Num(0),
         avgPnL |-> IF Len(bucket) > 0
                    THEN Frac(SumResult(bucket), Len(bucket))
                    ELSE Num(0),
         totalPnL |-> SumResult(bucket)]

\* Entry hour + 1 of the result is the bucket of `hour`.
HourStats(ft, hour) ==
    LET bucket == SelectSeq(ft, LAMBDA t : GetHours(t.openDate) = hour)
    IN  [hour |-> HourLabel(hour),
         trades |-> Len(bucket),
         winRate |-> IF Len(bucket) > 0
                     THEN RMul(Frac(Len(SelectSeq(bucket, IsWin)), Len(bucket)), Num(100))
                     ELSE Num(0),
         avgPnL |-> IF Len(bucket) > 0
                    THEN Frac(SumResult(bucket), Len(bucket))
                    ELSE Num(0),
         totalPnL |-> SumResult(bucket)]

HourlyAnalysis(ft) == [h \in 1..HoursInDay |-> HourStats(ft, h - 1)]

\* ----------------------------------------------------- TradeLog, Dashboard

InsertOpenDateDesc(s, t) ==
    LET k == Cardinality({i \in 1..Len(s) : s[i].openDate >= t.openDate})
    IN  SubSeq(s, 1, k) \o <<t>> \o SubSeq(s, k + 1, Len(s))

RECURSIVE SortOpenDateDesc(_)
\* .sort((a, b) => b.openDate.getTime() - a.openDate.getTime())
SortOpenDateDesc(s) ==
    IF s = <<>> THEN <<>>
    ELSE InsertOpenDateDesc(SortOpenDateDesc(SubSeq(s, 1, Len(s) - 1)), s[Len(s)])

\* TradeLog's filteredTrades with an empty search term and every
\* instrument: the status filter, then the sort.
TradeLogFilteredTrades(tr, filterStatus) ==
    SortOpenDateDesc(
        SelectSeq(tr, LAMBDA t : filterStatus = "all" \/ t.status = filterStatus))

\* TradeLog's stats: totalPnL is summed over the filtered rows, the win
\* rate over the closed ones among them.
TradeLogStats(ft) ==
    LET closedTrades == SelectSeq(ft, IsClosed)
        winTrades == SelectSeq(closedTrades, IsWin)
    IN  [totalTrades |-> Len(ft),
         openTrades |-> Len(SelectSeq(ft, LAMBDA t : t.status = "open")),
         closedTrades |-> Len(closedTrades),
         totalPnL |-> SumResult(ft),
         winRate |-> IF Len(closedTrades) > 0
                     THEN RMul(Frac(Len(winTrades), Len(closedTrades)), Num(100))
                     ELSE Num(0)]

\* Dashboard's stats.
DashboardStats(tr) ==
    LET closedTrades == SelectSeq(tr, IsClosed)
        winningTrades == SelectSeq(closedTrades, IsWin)
        avgWin == IF Len(winningTrades) > 0
                  THEN Frac(SumResult(winningTrades), Len(winningTrades))
                  ELSE Num(0)
        avgLoss == RAbs(Frac(SumResult(SelectSeq(closedTrades, IsLoss)),
                             Max(1, Len(closedTrades) - Len(winningTrades))))
    IN  [totalPnL |-> SumResult(closedTrades),
         winRate |-> IF Len(closedTrades) > 0
                     THEN RMul(Frac(Len(winningTrades), Len(closedTrades)), Num(100))
                     ELSE Num(0),
         riskReward |-> IF RLt(Num(0), avgLoss) THEN RDiv(avgWin, avgLoss) ELSE Num(0),
         totalTrades |-> Len(closedTrades)]

\* ------------------------------------------------------------------- state

VARIABLES
    trades,             \* the trades prop: the table's rows, newest first
    selectedPeriod,     \* useState('all')
    now,                \* the wall clock, what new Date() returns
    filterNow,          \* the `now` the filteredTrades memo last read
    filteredTrades,     \* the memoized array, as the last render left it
    advancedStats,      \* the memoized analytics
    dayOfWeekAnalysis,
    rollingWinRate,
    riskRewardScatter,
    equityData,
    monthlyData,
    tradeDurationData,
    trendLineData,
    hourlyAnalysis,
    tradeLogStats,      \* TradeLog's stats for the same rows, its filters
                        \* as useState initialises them
    dashboardStats,     \* Dashboard's stats for the same rows
    prevOutput          \* history: <<output>> of the previous evaluation when
                        \* it had the same trades and period, else <<>>

\* The hooks that load the rows: what useAccounts, useTrades and AppContent
\* keep, the tables they read, and their requests in flight.
VARIABLES
    accountsTable,          \* rows of the accounts table
    accounts,               \* useAccounts: accounts.length
    accountsLoading,        \* useAccounts: loading
    accountFetches,         \* fetchAccounts calls in flight
    accountInserts,         \* addAccount inserts in flight
    accountEvents,          \* realtime events not yet delivered
    defaultAccountCreated,  \* the localStorage flag
    defaultInsertsIssued,   \* history: inserts of the default account
    accountChanges,         \* history: changes made by other sessions
    tradesTable,            \* rows of the trades table
    hookTrades,             \* useTrades: trades.length
    tradesLoading,          \* useTrades: loading
    tradeFetches,           \* every fetchTrades call, in the order issued
    tradeEvents,            \* realtime events not yet delivered
    isInitialized,          \* AppContent: isInitialized
    currentAccountId,       \* AppContent: currentAccountId is set
    sampleInserts,          \* inserts of the sample trades in flight
    sampleInsertsIssued,    \* history: inserts of the sample trades
    sampleIntoTable,        \* history: one was issued with rows in the table
    tradeChanges            \* history: rows inserted by other sessions

statVars == <<trades, selectedPeriod, now, filterNow, filteredTrades,
              advancedStats, dayOfWeekAnalysis, rollingWinRate,
              riskRewardScatter, equityData, monthlyData, tradeDurationData,
              trendLineData, hourlyAnalysis, tradeLogStats, dashboardStats,
              prevOutput>>

accountVars == <<accountsTable, accounts, accountsLoading, accountFetches,
                 accountInserts, accountEvents, defaultAccountCreated,
                 defaultInsertsIssued, accountChanges>>

tradeVars == <<tradesTable, hookTrades, tradesLoading, tradeFetches,
               tradeEvents, isInitialized, currentAccountId, sampleInserts,
               sampleInsertsIssued, sampleIntoTable, tradeChanges>>

hookVars == <<accountVars, tradeVars>>

vars == <<statVars, hookVars>>

\* What the component hands to its charts and cards.
Output ==
    [advancedStats |-> advancedStats,
     dayOfWeekAnalysis |-> dayOfWeekAnalysis,
     rollingWinRate |-> rollingWinRate,
     riskRewardScatter |-> riskRewardScatter,
     equityData |-> equityData,
     monthlyData |-> monthlyData,
     tradeDurationData |-> tradeDurationData,
     trendLineData |-> trendLineData,
     hourlyAnalysis |-> hourlyAnalysis]

\* One render of Statistics with every memo recomputed, in the order of
\* the source: filteredTrades, advancedStats (calculateMaxDrawdown sorts
\* filteredTrades in place), equityData (sorts it again), then the views.
Render(tr, period, n) ==
    LET ft == FilterTrades(tr, period, n)
        sorted == SortTimestampAsc(ft)
    IN  /\ filterNow' = n
        /\ advancedStats' = AdvancedStats(ft)
        /\ filteredTrades' = sorted
        /\ equityData' = EquityData(sorted)
        /\ monthlyData' = MonthlyData(sorted)
        /\ tradeDurationData' = TradeDurationData(sorted)
        /\ trendLineData' = TrendLineData(tradeDurationData')
        /\ dayOfWeekAnalysis' = DayOfWeekAnalysis(sorted)
        /\ hourlyAnalysis' = HourlyAnalysis(sorted)
        /\ rollingWinRate' = RollingWinRate(sorted)
        /\ riskRewardScatter' = RiskRewardScatter(sorted)

\* TradeLog and Dashboard are handed the same trades prop; TradeLog is
\* mounted with its filters at 'all'.
RenderOthers(tr) ==
    /\ tradeLogStats' = TradeLogStats(TradeLogFilteredTrades(tr, "all"))
    /\ dashboardStats' = DashboardStats(tr)

StatisticsInit ==
    /\ trades = <<>>
    /\ selectedPeriod = "all"
    /\ now = Now0
    /\ filterNow = Now0
    /\ filteredTrades = <<>>
    /\ advancedStats = EmptyStats
    /\ dayOfWeekAnalysis = DayOfWeekAnalysis(<<>>)
    /\ rollingWinRate = <<>>
    /\ riskRewardScatter = <<>>
    /\ equityData = <<>>
    /\ monthlyData = <<>>
    /\ tradeDurationData = <<>>
    /\ trendLineData = <<>>
    /\ hourlyAnalysis = HourlyAnalysis(<<>>)
    /\ tradeLogStats = TradeLogStats(<<>>)
    /\ dashboardStats = DashboardStats(<<>>)
    /\ prevOutput = <<>>

-----------------------------------------------------------------------------
\* useAccounts.  A request is a record on its way: a fetch is "sent", then
\* "read" once the server has answered with the rows it held, and leaves
\* the list when the client handles the answer; an insert is "sent", then
\* "committed" once the row is in the table, and leaves when the client
\* handles the answer.  Answers come back in any order.  The session is
\* the first of a new user: the tables are empty and localStorage is clear.

AccountsInit ==
    /\ accountsTable = 0
    /\ accounts = 0
    /\ accountsLoading = TRUE
    /\ accountFetches = <<[phase |-> "sent", data |-> 0, owner |-> "mount"]>>
    /\ accountInserts = <<>>
    /\ accountEvents = 0
    /\ defaultAccountCreated = FALSE
    /\ defaultInsertsIssued = 0
    /\ accountChanges = 0

RemoveAt(s, i) == SubSeq(s, 1, i - 1) \o SubSeq(s, i + 1, Len(s))

\* The effect on [loading, accounts.length]: it runs when one of them has
\* changed, and calls addAccount for 'Main Account' when the list is loaded,
\* empty and the flag is not set.
DefaultAccountEffect(loading2, accounts2, flag) ==
    /\ loading2 # accountsLoading \/ accounts2 # accounts
    /\ ~loading2
    /\ accounts2 = 0
    /\ ~flag

\* setAccounts and setLoading(false) of one fetchAccounts, then the effect.
SetAccounts(accounts2, flag) ==
    LET issue == DefaultAccountEffect(FALSE, accounts2, flag)
    IN  /\ issue => defaultInsertsIssued < MaxDefaultInserts
        /\ accounts' = accounts2
        /\ accountsLoading' = FALSE
        /\ defaultAccountCreated' = flag
        /\ accountInserts' =
              IF issue THEN Append(accountInserts, "sent") ELSE accountInserts
        /\ defaultInsertsIssued' = defaultInsertsIssued + (IF issue THEN 1 ELSE 0)

\* fetchAccounts is called: setLoading(true) and the select is sent.
FetchAccounts(owner) ==
    /\ Len(accountFetches) < MaxAccountFetches
    /\ accountFetches' =
          Append(accountFetches, [phase |-> "sent", data |-> 0, owner |-> owner])
    /\ accountsLoading' = TRUE

\* The server answers a select with the rows it holds now.
FetchAccountsRead(i) ==
    /\ accountFetches[i].phase = "sent"
    /\ accountFetches' = [accountFetches EXCEPT ![i].phase = "read",
                                                ![i].data = accountsTable]
    /\ UNCHANGED <<accountsTable, accounts, accountsLoading, accountInserts,
                   accountEvents, defaultAccountCreated, defaultInsertsIssued,
                   accountChanges, statVars, tradeVars>>

\* The answer arrives.  When the fetch is the one addAccount awaits,
\* addAccount resolves and its .then sets the flag before the effect runs.
FetchAccountsReturn(i) ==
    /\ accountFetches[i].phase = "read"
    /\ accountFetches' = RemoveAt(accountFetches, i)
    /\ SetAccounts(accountFetches[i].data,
                   defaultAccountCreated \/ accountFetches[i].owner = "addAccount")
    /\ UNCHANGED <<accountsTable, accountEvents, accountChanges, statVars, tradeVars>>

\* The select fails: the catch block sets the empty list.
FetchAccountsFail(i) ==
    /\ accountFetches[i].phase = "sent"
    /\ accountFetches' = RemoveAt(accountFetches, i)
    /\ SetAccounts(0, defaultAccountCreated
                        \/ accountFetches[i].owner = "addAccount")
    /\ UNCHANGED <<accountsTable, accountEvents, accountChanges, statVars, tradeVars>>

\* The insert of addAccount reaches the table; the table publishes the
\* change.
AddAccountCommit(i) ==
    /\ accountInserts[i] = "sent"
    /\ accountInserts' = [accountInserts EXCEPT ![i] = "committed"]
    /\ accountsTable' = accountsTable + 1
    /\ accountEvents' = accountEvents + 1
    /\ UNCHANGED <<accounts, accountsLoading, accountFetches,
                   defaultAccountCreated, defaultInsertsIssued, accountChanges,
                   statVars, tradeVars>>

\* The answer of the insert arrives: addAccount goes on to fetchAccounts.
AddAccountReturn(i) ==
    /\ accountInserts[i] = "committed"
    /\ accountInserts' = RemoveAt(accountInserts, i)
    /\ FetchAccounts("addAccount")
    /\ UNCHANGED <<accountsTable, accounts, accountEvents,
                   defaultAccountCreated, defaultInsertsIssued, accountChanges,
                   statVars, tradeVars>>

\* The insert fails: addAccount throws, the flag stays as it is.
AddAccountFail(i) ==
    /\ accountInserts[i] = "sent"
    /\ accountInserts' = RemoveAt(accountInserts, i)
    /\ UNCHANGED <<accountsTable, accounts, accountsLoading, accountFetches,
                   accountEvents, defaultAccountCreated, defaultInsertsIssued,
                   accountChanges, statVars, tradeVars>>

\* The realtime channel delivers an event: its callback calls fetchAccounts.
AccountsRealtime ==
    /\ accountEvents > 0
    /\ accountEvents' = accountEvents - 1
    /\ FetchAccounts("realtime")
    /\ UNCHANGED <<accountsTable, accounts, accountInserts,
                   defaultAccountCreated, defaultInsertsIssued, accountChanges,
                   statVars, tradeVars>>

\* Another session updates a row of the table (the channel listens to
\* every event of the table).
AccountsChanged ==
    /\ accountChanges < MaxAccountChanges
    /\ accountChanges' = accountChanges + 1
    /\ accountEvents' = accountEvents + 1
    /\ UNCHANGED <<accountsTable, accounts, accountsLoading, accountFetches,
                   accountInserts, defaultAccountCreated, defaultInsertsIssued,
                   statVars, tradeVars>>


-----------------------------------------------------------------------------
\* useTrades and the sample data of AppContent.  tradeFetches keeps every
\* fetchTrades call in the order issued: "sent", "read" once the server
\* has answered with the rows it held, then "done" or "failed" when the
\* client has handled the answer.

TradesInit ==
    /\ tradesTable = 0
    /\ hookTrades = 0
    /\ tradesLoading = TRUE
    /\ tradeFetches = <<[phase |-> "sent", data |-> 0]>>
    /\ tradeEvents = 0
    /\ isInitialized = FALSE
    /\ currentAccountId = FALSE
    /\ sampleInserts = <<>>
    /\ sampleInsertsIssued = 0
    /\ sampleIntoTable = FALSE
    /\ tradeChanges = 0

\* The effect on [tradesLoading, trades.length, isInitialized,
\* currentAccountId]: it runs when one of them has changed and inserts the
\* sample trades when the list is loaded and empty, nothing was initialised
\* and an account is selected.
SampleDataEffect(loading2, trades2, initialized2, account2) ==
    /\ <<loading2, trades2, initialized2, account2>>
          # <<tradesLoading, hookTrades, isInitialized, currentAccountId>>
    /\ ~loading2
    /\ trades2 = 0
    /\ ~initialized2
    /\ account2

\* A state update of useTrades or AppContent, then the effect.
SetAppState(loading2, trades2, initialized2, account2) ==
    LET issue == SampleDataEffect(loading2, trades2, initialized2, account2)
    IN  /\ issue => sampleInsertsIssued < MaxSampleInserts
        /\ tradesLoading' = loading2
        /\ hookTrades' = trades2
        /\ isInitialized' = initialized2
        /\ currentAccountId' = account2
        /\ sampleInserts' =
              IF issue THEN Append(sampleInserts, "sent") ELSE sampleInserts
        /\ sampleInsertsIssued' = sampleInsertsIssued + (IF issue THEN 1 ELSE 0)
        /\ sampleIntoTable' = (sampleIntoTable \/ (issue /\ tradesTable > 0))

\* fetchTrades is called: setLoading(true) and the select is sent.
FetchTrades ==
    /\ Len(tradeFetches) < MaxTradeFetches
    /\ tradeFetches' = Append(tradeFetches, [phase |-> "sent", data |-> 0])
    /\ SetAppState(TRUE, hookTrades, isInitialized, currentAccountId)

\* The server answers a select with the rows it holds now.
FetchTradesRead(i) ==
    /\ tradeFetches[i].phase = "sent"
    /\ tradeFetches' = [tradeFetches EXCEPT ![i].phase = "read",
                                            ![i].data = tradesTable]
    /\ UNCHANGED <<tradesTable, hookTrades, tradesLoading, tradeEvents,
                   isInitialized, currentAccountId, sampleInserts,
                   sampleInsertsIssued, sampleIntoTable, tradeChanges,
                   statVars, accountVars>>

\* The answer arrives: setTrades, then setLoading(false).
FetchTradesReturn(i) ==
    /\ tradeFetches[i].phase = "read"
    /\ tradeFetches' = [tradeFetches EXCEPT ![i].phase = "done"]
    /\ SetAppState(FALSE, tradeFetches[i].data, isInitialized, currentAccountId)
    /\ UNCHANGED <<tradesTable, tradeEvents, tradeChanges, statVars,
                   accountVars>>

\* The select fails: the list stays as it was, setLoading(false).
FetchTradesFail(i) ==
    /\ tradeFetches[i].phase = "sent"
    /\ tradeFetches' = [tradeFetches EXCEPT ![i].phase = "failed"]
    /\ SetAppState(FALSE, hookTrades, isInitialized, currentAccountId)
    /\ UNCHANGED <<tradesTable, tradeEvents, tradeChanges, statVars,
                   accountVars>>

\* The realtime channel delivers an event: its callback calls fetchTrades.
TradesRealtime ==
    /\ tradeEvents > 0
    /\ tradeEvents' = tradeEvents - 1
    /\ FetchTrades
    /\ UNCHANGED <<tradesTable, tradeChanges, statVars, accountVars>>

\* useTrades.deleteTrade on a row of the list: the row leaves the table, the
\* table publishes the change, and deleteTrade goes on to fetchTrades.
HookDeleteTrade ==
    /\ hookTrades > 0
    /\ tradesTable > 0
    /\ tradesTable' = tradesTable - 1
    /\ tradeEvents' = tradeEvents + 1
    /\ FetchTrades
    /\ UNCHANGED <<tradeChanges, statVars, accountVars>>

\* Another session inserts a row.
TradesChanged ==
    /\ tradeChanges < MaxTradeChanges
    /\ tradeChanges' = tradeChanges + 1
    /\ tradesTable' = tradesTable + 1
    /\ tradeEvents' = tradeEvents + 1
    /\ UNCHANGED <<hookTrades, tradesLoading, tradeFetches, isInitialized,
                   currentAccountId, sampleInserts, sampleInsertsIssued,
                   sampleIntoTable, statVars, accountVars>>

\* The accounts have loaded: AppContent selects the first one.
SetCurrentAccountId ==
    /\ ~currentAccountId
    /\ SetAppState(tradesLoading, hookTrades, isInitialized, TRUE)
    /\ UNCHANGED <<tradesTable, tradeFetches, tradeEvents, tradeChanges,
                   statVars, accountVars>>

\* The insert of the sample trades reaches the table; the table publishes
\* the change.
SampleInsertCommit(i) ==
    /\ sampleInserts[i] = "sent"
    /\ sampleInserts' = [sampleInserts EXCEPT ![i] = "committed"]
    /\ tradesTable' = tradesTable + SampleTrades
    /\ tradeEvents' = tradeEvents + 1
    /\ UNCHANGED <<hookTrades, tradesLoading, tradeFetches, isInitialized,
                   currentAccountId, sampleInsertsIssued, sampleIntoTable,
                   tradeChanges, statVars, accountVars>>

\* The answer of the insert arrives, with or without an error:
\* setIsInitialized(true).
SampleInsertReturn(i) ==
    /\ sampleInserts' = RemoveAt(sampleInserts, i)
    /\ tradesLoading' = tradesLoading
    /\ hookTrades' = hookTrades
    /\ isInitialized' = TRUE
    /\ UNCHANGED <<tradesTable, tradeFetches, tradeEvents, currentAccountId,
                   sampleInsertsIssued, sampleIntoTable, tradeChanges,
                   statVars, accountVars>>

Init == StatisticsInit /\ AccountsInit /\ TradesInit

\* The steps of useTrades and of the sample-data effect.
TradesFetchStep ==
    \E i \in 1..Len(tradeFetches) :
        FetchTradesRead(i) \/ FetchTradesReturn(i) \/ FetchTradesFail(i)

SampleInsertStep ==
    \E i \in 1..Len(sampleInserts) :
        SampleInsertCommit(i) \/ SampleInsertReturn(i)

NextTrades ==
    \/ TradesFetchStep
    \/ SampleInsertStep
    \/ TradesRealtime
    \/ HookDeleteTrade
    \/ TradesChanged
    \/ SetCurrentAccountId

SpecTrades == Init /\ [][NextTrades]_vars

\* The steps of useAccounts.
AccountsFetchStep ==
    \E i \in 1..Len(accountFetches) :
        FetchAccountsRead(i) \/ FetchAccountsReturn(i) \/ FetchAccountsFail(i)

AddAccountStep ==
    \E i \in 1..Len(accountInserts) :
        AddAccountCommit(i) \/ AddAccountReturn(i) \/ AddAccountFail(i)

NextAccounts ==
    \/ AccountsFetchStep
    \/ AddAccountStep
    \/ AccountsRealtime
    \/ AccountsChanged

SpecAccounts == Init /\ [][NextAccounts]_vars

-----------------------------------------------------------------------------
\* fetchTrades orders by timestamp, newest first; rows with the same
\* timestamp come back in any order.
NewestFirstAt(tr, t, k) ==
    /\ \A i \in 1..k : tr[i].timestamp >= t.timestamp
    /\ \A i \in (k + 1)..Len(tr) : tr[i].timestamp <= t.timestamp

\* A row is inserted (addTrade, or a realtime event of another session) and
\* fetchTrades delivers the new list.  While it loads AppContent shows the
\* loading screen, so Statistics is mounted afresh: selectedPeriod is 'all'.
AddTrade(pool, max) ==
    /\ Len(trades) < max
    /\ \E t \in pool, k \in 0..Len(trades) :
          /\ NewestFirstAt(trades, t, k)
          /\ trades' = SubSeq(trades, 1, k) \o <<t>> \o SubSeq(trades, k + 1, Len(trades))
    /\ selectedPeriod' = "all"
    /\ Render(trades', "all", now)
    /\ RenderOthers(trades')
    /\ prevOutput' = <<>>
    /\ UNCHANGED <<now, hookVars>>

\* A row is deleted and fetchTrades delivers the new list.
DeleteTrade ==
    /\ \E i \in 1..Len(trades) :
          trades' = SubSeq(trades, 1, i - 1) \o SubSeq(trades, i + 1, Len(trades))
    /\ selectedPeriod' = "all"
    /\ Render(trades', "all", now)
    /\ RenderOthers(trades')
    /\ prevOutput' = <<>>
    /\ UNCHANGED <<now, hookVars>>

\* The period selector's onValueChange.
SetSelectedPeriod(p) ==
    /\ p # selectedPeriod
    /\ selectedPeriod' = p
    /\ Render(trades, p, now)
    /\ prevOutput' = <<>>
    /\ UNCHANGED <<trades, now, tradeLogStats, dashboardStats, hookVars>>

\* AppContent renders again (the mobile menu opens or closes): it maps
\* the rows to a new array with the same content, so every memo of
\* Statistics is recomputed.
AppRerender ==
    /\ Render(trades, selectedPeriod, now)
    /\ prevOutput' = <<Output>>
    /\ UNCHANGED <<trades, selectedPeriod, now, tradeLogStats, dashboardStats,
                   hookVars>>

\* The user leaves the statistics tab and comes back.
Remount ==
    /\ selectedPeriod' = "all"
    /\ Render(trades, "all", now)
    /\ prevOutput' = IF selectedPeriod = "all" THEN <<Output>> ELSE <<>>
    /\ UNCHANGED <<trades, now, tradeLogStats, dashboardStats, hookVars>>

\* A minute passes.
Tick ==
    /\ now < Now0 + MaxTicks
    /\ now' = now + 1
    /\ UNCHANGED <<trades, selectedPeriod, filterNow, filteredTrades,
                   advancedStats, dayOfWeekAnalysis, rollingWinRate,
                   riskRewardScatter, equityData, monthlyData,
                   tradeDurationData, trendLineData, hourlyAnalysis,
                   tradeLogStats, dashboardStats, prevOutput, hookVars>>

\* Each trade of TradePool is one row of the table: it is inserted while
\* it is not there.
AddPoolTrade ==
    AddTrade(TradePool \ {trades[i] : i \in 1..Len(trades)}, MaxTrades)

AddRollingTrade == AddTrade(RollingPool, MaxRollingTrades)

ChangePeriod == \E p \in Periods : SetSelectedPeriod(p)

Next ==
    \/ AddPoolTrade
    \/ DeleteTrade
    \/ ChangePeriod
    \/ AppRerender
    \/ Remount
    \/ Tick

Spec == Init /\ [][Next]_vars

\* Long trade lists for the rolling window: the same component, fed from
\* RollingPool.
NextRolling ==
    \/ AddRollingTrade
    \/ ChangePeriod
    \/ AppRerender

SpecRolling == Init /\ [][NextRolling]_vars

\* ------------------------------------------------------------------ claims

\* The indices of the trades in s that satisfy a test, counted.
CountWins(s) == Cardinality({i \in 1..Len(s) : s[i].result > 0})

CountLosses(s) == Cardinality({i \in 1..Len(s) : s[i].result < 0})

\* The period's length in days, as the specification states it.
WindowDays(period) ==
    CASE period = "week" -> 7 [] period = "month" -> 30 [] period = "quarter" -> 90

\* The trades of the prop that a period at instant n selects.
Selected(t, period, n) ==
    /\ t.status = "closed"
    /\ period = "all" \/ t.timestamp >= n - WindowDays(period) * 24 * 60

ExpectedPnL(tr, period, n) ==
    LET Sum[i \in 0..Len(tr)] ==
            IF i = 0 THEN 0
            ELSE Sum[i - 1] + (IF Selected(tr[i], period, n) THEN tr[i].result ELSE 0)
    IN  Sum[Len(tr)]

\* C1: totalPnL is the sum of result over exactly the closed trades whose
\* timestamp is at or after now minus 7/30/90 days (every closed trade for
\* period all), now being the clock the filter read.
C1_TotalPnL ==
    advancedStats.totalPnL = ExpectedPnL(trades, selectedPeriod, filterNow)

\* C1 witness: period week, a closed trade exactly on the boundary (counted),
\* a closed trade before it and an open trade (neither counted).
C1_Witness ==
    /\ selectedPeriod = "week"
    /\ \E i, j, k \in 1..Len(trades) :
          /\ trades[i].status = "closed"
          /\ trades[i].timestamp = filterNow - 7 * DayMin
          /\ trades[i].result # 0
          /\ trades[j].status = "closed"
          /\ trades[j].timestamp < filterNow - 7 * DayMin
          /\ trades[j].result # 0
          /\ trades[k].status = "open"
          /\ trades[k].result # 0
    /\ advancedStats.totalPnL # 0

\* C2: for a non-empty filtered list winRate is 100 * wins / trades, where
\* wins counts the results > 0 and trades counts every trade, so it lies in
\* [0, 100].
C2_WinRateBounds ==
    Len(filteredTrades) > 0 =>
        /\ IsFinite(advancedStats.winRate)
        /\ RLe(Num(0), advancedStats.winRate)
        /\ RLe(advancedStats.winRate, Num(100))
        /\ advancedStats.winRate.n * Len(filteredTrades)
             = 100 * CountWins(filteredTrades) * advancedStats.winRate.d

\* C2 witness: a list with a win and a break-even trade and nothing else.
C2_Witness ==
    /\ CountWins(filteredTrades) > 0
    /\ CountLosses(filteredTrades) = 0
    /\ \E i \in 1..Len(filteredTrades) : filteredTrades[i].result = 0
    /\ RLt(advancedStats.winRate, Num(100))

\* C3: with a win and no loss profitFactor is exactly 999; with no win it
\* is 0; it is never a non-finite number.
C3_ProfitFactorSentinel ==
    /\ IsFinite(advancedStats.profitFactor)
    /\ (CountWins(filteredTrades) > 0 /\ CountLosses(filteredTrades) = 0)
          => advancedStats.profitFactor = Num(999)
    /\ CountWins(filteredTrades) = 0 => advancedStats.profitFactor = Num(0)

\* C3 witness: two wins and no loss, reported as 999.
C3_Witness ==
    /\ CountWins(filteredTrades) >= 2
    /\ CountLosses(filteredTrades) = 0
    /\ advancedStats.profitFactor = Num(999)

AllWins(s) == \A i \in 1..Len(s) : s[i].result > 0

\* C4: maxDrawdown is never negative, and is 0 when every result is
\* positive.
C4_Drawdown ==
    /\ advancedStats.maxDrawdown >= 0
    /\ AllWins(filteredTrades) => advancedStats.maxDrawdown = 0

\* C4 witness: at least two trades, all wins, drawdown 0.
C4_Witness ==
    /\ Len(filteredTrades) >= 2
    /\ AllWins(filteredTrades)
    /\ advancedStats.maxDrawdown = 0

\* The length of the longest run of consecutive elements of s whose result
\* has the sign sgn.
LongestRun(s, sgn) ==
    LET runs == {<<i, j>> \in (1..Len(s)) \X (1..Len(s)) :
                    i <= j /\ \A k \in i..j : Sign(s[k].result) = sgn}
    IN  IF runs = {} THEN 0
        ELSE CHOOSE m \in 1..Len(s) :
                /\ \E r \in runs : r[2] - r[1] + 1 = m
                /\ \A r \in runs : r[2] - r[1] + 1 <= m

\* C5: consecutiveWins is the longest run of results > 0 in ascending
\* timestamp order and consecutiveLosses the longest run of results < 0; a
\* result of 0 belongs to neither run.  (filteredTrades is in ascending
\* timestamp order after a render.)
C5_Streaks ==
    /\ advancedStats.consecutiveWins = LongestRun(filteredTrades, 1)
    /\ advancedStats.consecutiveLosses = LongestRun(filteredTrades, -1)

\* C5 witness: win, break-even, win in timestamp order: the longest
\* winning run is 1.
C5_Witness ==
    /\ Len(filteredTrades) = 3
    /\ filteredTrades[1].result > 0
    /\ filteredTrades[2].result = 0
    /\ filteredTrades[3].result > 0
    /\ advancedStats.consecutiveWins = 1

\* The number of leading elements of s whose result has the sign sgn.
LeadingRun(s, sgn) ==
    Cardinality({k \in 1..Len(s) : \A i \in 1..k : Sign(s[i].result) = sgn})

\* C6: currentStreak has the sign of the most recent trade's result as its
\* type and the number of most recent trades sharing that sign as its
\* count; a most recent result of 0 gives count 0 and a type that is
\* neither win nor loss; an empty list gives none and 0.
C6_CurrentStreak ==
    LET cs == advancedStats.currentStreak
        newest == SortTimestampDesc(filteredTrades)
    IN  IF Len(filteredTrades) = 0 THEN cs = [type |-> "none", count |-> 0]
        ELSE LET last == newest[1].result
             IN  /\ last > 0 => cs = [type |-> "win", count |-> LeadingRun(newest, 1)]
                 /\ last < 0 => cs = [type |-> "loss", count |-> LeadingRun(newest, -1)]
                 /\ last = 0 => cs.count = 0 /\ cs.type \notin {"win", "loss"}

\* The weekday entry i (1 is Monday ... 5 is Friday) of a timestamp: the
\* epoch (day 0) was a Thursday.
OnWeekday(t, i) == (t.timestamp \div (24 * 60)) % 7 = (i + 3) % 7

\* C7: dayOfWeekAnalysis has exactly the five entries Monday to Friday in
\* that order; entry i counts exactly the trades of that weekday, so
\* weekend trades are in none; an entry without trades is all zero.
C7_WeekdayZeroFill ==
    /\ DOMAIN dayOfWeekAnalysis = 1..5
    /\ [i \in 1..5 |-> dayOfWeekAnalysis[i].fullDay]
         = <<"Monday", "Tuesday", "Wednesday", "Thursday", "Friday">>
    /\ \A i \in 1..5 :
          LET e == dayOfWeekAnalysis[i]
              on == {k \in 1..Len(filteredTrades) : OnWeekday(filteredTrades[k], i)}
          IN  /\ e.trades = Cardinality(on)
              /\ on = {} => /\ e.trades = 0
                            /\ e.winRate = Num(0)
                            /\ e.avgPnL = Num(0)
                            /\ e.totalPnL = 0

\* C7 witness: a weekend trade and a Monday trade are in the list, and
\* Wednesday has none.
C7_Witness ==
    /\ \E k \in 1..Len(filteredTrades) :
          (filteredTrades[k].timestamp \div (24 * 60)) % 7 \in {2, 3}
    /\ dayOfWeekAnalysis[1].trades > 0
    /\ dayOfWeekAnalysis[3].trades = 0

\* C8: rollingWinRate is empty below 5 trades and has exactly one point,
\* the window over all trades, from 5 to 20 trades.
C8_RollingThreshold ==
    LET n == Len(filteredTrades)
    IN  /\ n < 5 => rollingWinRate = <<>>
        /\ (5 <= n /\ n <= 20) =>
              /\ Len(rollingWinRate) = 1
              /\ rollingWinRate[1].trade = n
              /\ rollingWinRate[1].winRate.n * n
                   = 100 * CountWins(filteredTrades) * rollingWinRate[1].winRate.d

\* C8 witness: 20 trades, wins and losses, one point.
C8_Witness ==
    /\ Len(filteredTrades) = 20
    /\ CountWins(filteredTrades) > 0
    /\ CountLosses(filteredTrades) > 0
    /\ Len(rollingWinRate) = 1

\* A trade whose planned risk:reward is defined and strictly between 0
\* and 10 (lot sizes are positive).
Plottable(t) ==
    /\ t.stopLoss # 0
    /\ t.takeProfit # 0
    /\ t.entryPrice # t.stopLoss
    /\ t.takeProfit # t.entryPrice
    /\ Abs(t.takeProfit - t.entryPrice) < 10 * Abs(t.entryPrice - t.stopLoss)

\* C9: every row of riskRewardScatter has a finite plannedRR with
\* 0 < plannedRR < 10, and the rows are exactly the trades with stopLoss
\* and takeProfit set, non-zero risk and such a ratio: a zero-risk trade
\* and a trade without stopLoss or takeProfit have no row.
C9_RiskRewardFilter ==
    /\ \A i \in 1..Len(riskRewardScatter) :
          /\ IsFinite(riskRewardScatter[i].plannedRR)
          /\ RLt(Num(0), riskRewardScatter[i].plannedRR)
          /\ RLt(riskRewardScatter[i].plannedRR, Num(10))
    /\ Len(riskRewardScatter)
         = Cardinality({k \in 1..Len(filteredTrades) : Plottable(filteredTrades[k])})
    /\ [i \in 1..Len(riskRewardScatter) |-> riskRewardScatter[i].actualPnL]
         = [i \in 1..Len(riskRewardScatter) |->
              SelectSeq(filteredTrades, Plottable)[i].result]

\* C9 witness: a zero-risk trade, a trade without stopLoss and a plottable
\* trade; one row.
C9_Witness ==
    /\ \E k \in 1..Len(filteredTrades) :
          /\ filteredTrades[k].stopLoss # 0
          /\ filteredTrades[k].entryPrice = filteredTrades[k].stopLoss
    /\ \E k \in 1..Len(filteredTrades) : filteredTrades[k].stopLoss = 0
    /\ Len(riskRewardScatter) = 1

\* C10: an evaluation with the same trade list and the same period as the
\* evaluation before it produces the same output.
C10_Idempotent ==
    prevOutput # <<>> => prevOutput[1] = Output

\* The rows of the prop that are closed.
ClosedOnly(tr) == SelectSeq(tr, IsClosed)

\* C11: open trades are excluded from every P&L-bearing aggregate: the
\* aggregates of Statistics, Dashboard and TradeLog are those of the list
\* with its open trades removed.  (TradeLog sums totalPnL over open rows
\* too, so this does not hold.)
C11_OpenTradesExcluded ==
    /\ advancedStats =
           AdvancedStats(FilterTrades(ClosedOnly(trades), selectedPeriod, filterNow))
    /\ dashboardStats = DashboardStats(ClosedOnly(trades))
    /\ tradeLogStats.totalPnL =
           TradeLogStats(TradeLogFilteredTrades(ClosedOnly(trades), "all")).totalPnL
    /\ tradeLogStats.winRate =
           TradeLogStats(TradeLogFilteredTrades(ClosedOnly(trades), "all")).winRate

\* Every row of the prop is an open trade (an empty prop included).
OnlyOpenTrades == \A i \in 1..Len(trades) : trades[i].status = "open"

BucketIsZero(b) ==
    b.trades = 0 /\ b.winRate = Num(0) /\ b.avgPnL = Num(0) /\ b.totalPnL = 0

\* C12: when the trade list is empty or holds only open trades, every
\* numeric metric is 0, the current streak is {none, 0}, the monthly,
\* duration, trend-line, rolling and risk/reward series are empty, and the
\* weekday and hour views are 5 and 24 zero-filled entries.
C12_EmptyNeutral ==
    OnlyOpenTrades =>
        /\ \A f \in {"totalPnL", "largestWin", "largestLoss", "consecutiveWins",
                     "consecutiveLosses", "totalTrades", "winTrades",
                     "lossTrades", "maxDrawdown"} : advancedStats[f] = 0
        /\ \A f \in {"winRate", "avgWin", "avgLoss", "profitFactor", "expectancy",
                     "avgRR", "maxDrawdownPercent", "avgDuration",
                     "kellyPercent"} : advancedStats[f] = Num(0)
        /\ advancedStats.currentStreak = [type |-> "none", count |-> 0]
        /\ monthlyData = <<>>
        /\ tradeDurationData = <<>>
        /\ trendLineData = <<>>
        /\ rollingWinRate = <<>>
        /\ riskRewardScatter = <<>>
        /\ Len(dayOfWeekAnalysis) = 5
        /\ \A i \in 1..Len(dayOfWeekAnalysis) : BucketIsZero(dayOfWeekAnalysis[i])
        /\ Len(hourlyAnalysis) = 24
        /\ \A i \in 1..Len(hourlyAnalysis) : BucketIsZero(hourlyAnalysis[i])

\* A list of one open trade that carries a result has been rendered.
C12_Witness ==
    /\ Len(trades) = 1
    /\ trades[1].status = "open"
    /\ trades[1].result # 0
    /\ filteredTrades = <<>>
    /\ advancedStats.totalTrades = 0

\* C13: no division of profitFactor, avgRR, kellyPercent,
\* maxDrawdownPercent, avgWin, avgLoss or of a bucket's winRate and avgPnL
\* has a zero denominator: each of these values, the profit factor before
\* its cap included, is a finite number in every state.
C13_NoZeroDenominator ==
    /\ \A f \in {"winRate", "avgWin", "avgLoss", "profitFactor", "expectancy",
                 "avgRR", "maxDrawdownPercent", "avgDuration", "kellyPercent"} :
           IsFinite(advancedStats[f])
    /\ Len(filteredTrades) > 0 => IsFinite(ProfitFactor(filteredTrades))
    /\ \A i \in 1..Len(dayOfWeekAnalysis) :
           IsFinite(dayOfWeekAnalysis[i].winRate) /\ IsFinite(dayOfWeekAnalysis[i].avgPnL)
    /\ \A i \in 1..Len(hourlyAnalysis) :
           IsFinite(hourlyAnalysis[i].winRate) /\ IsFinite(hourlyAnalysis[i].avgPnL)
    /\ \A i \in 1..Len(monthlyData) : IsFinite(monthlyData[i].winRate)
    /\ \A i \in 1..Len(equityData) : IsFinite(equityData[i].drawdownPercent)
    /\ \A i \in 1..Len(rollingWinRate) : IsFinite(rollingWinRate[i].winRate)
    /\ \A i \in 1..Len(riskRewardScatter) : IsFinite(riskRewardScatter[i].plannedRR)
    /\ \A i \in 1..Len(trendLineData) : IsFinite(trendLineData[i].trendProfit)

\* Wins without a loss have been analysed: avgLoss, the denominator of
\* profitFactor and avgRR, is 0.
C13_Witness ==
    /\ advancedStats.winTrades > 0
    /\ advancedStats.lossTrades = 0
    /\ advancedStats.avgLoss = Num(0)
    /\ advancedStats.avgRR = Num(0)

\* C14: no analytics computation mutates the trade list it reads: once
\* every view is computed, the shared filtered list holds the trades the
\* filter produced, in the order the filter produced them.  (Three
\* computations sort the list in place, so this does not hold.)
C14_FilteredListUntouched ==
    filteredTrades = FilterTrades(trades, selectedPeriod, filterNow)

\* The list with every closeDate removed, and with every stopLoss and
\* takeProfit removed.
WithoutCloseDate(s) == [i \in 1..Len(s) |-> [s[i] EXCEPT !.closeDate = NoDate]]

WithoutStops(s) ==
    [i \in 1..Len(s) |-> [s[i] EXCEPT !.stopLoss = 0, !.takeProfit = 0]]

\* The trades a bucketed view has counted, all buckets together.
TradesCounted(view) ==
    LET Count[i \in 0..Len(view)] ==
            IF i = 0 THEN 0 ELSE Count[i - 1] + view[i].trades
    IN  Count[Len(view)]

\* The minutes between openDate and closeDate, summed over a list.
MinutesHeld(s) ==
    LET Total[i \in 0..Len(s)] ==
            IF i = 0 THEN 0 ELSE Total[i - 1] + (s[i].closeDate - s[i].openDate)
    IN  Total[Len(s)]

StatsFields ==
    {"totalPnL", "winRate", "avgWin", "avgLoss", "largestWin", "largestLoss",
     "profitFactor", "consecutiveWins", "consecutiveLosses", "totalTrades",
     "winTrades", "lossTrades", "expectancy", "avgRR", "maxDrawdown",
     "maxDrawdownPercent", "avgDuration", "currentStreak", "kellyPercent"}

\* C15: a closed trade without a closeDate is left out of the duration
\* scatter and of avgDuration only, one without stopLoss or takeProfit out
\* of the risk/reward scatter only: the duration views are those of the
\* trades with a closeDate, the risk/reward scatter that of the trades
\* with both levels, and every other aggregate is what it would be with
\* all closeDates, or all levels, absent, with every trade counted.
C15_MissingFieldsLocal ==
    LET given == FilterTrades(trades, selectedPeriod, filterNow)
        timed == SelectSeq(filteredTrades, LAMBDA t : t.closeDate # NoDate)
        planned == SelectSeq(filteredTrades,
                             LAMBDA t : t.stopLoss # 0 /\ t.takeProfit # 0)
        untimed == WithoutCloseDate(filteredTrades)
        unplanned == WithoutStops(filteredTrades)
    IN  /\ Len(tradeDurationData) = Len(timed)
        /\ tradeDurationData = TradeDurationData(timed)
        /\ RMul(advancedStats.avgDuration, Num(60 * Len(timed))) = Num(MinutesHeld(timed))
        /\ riskRewardScatter = RiskRewardScatter(planned)
        /\ \A f \in StatsFields \ {"avgDuration"} :
               AdvancedStats(WithoutCloseDate(given))[f] = advancedStats[f]
        /\ AdvancedStats(WithoutStops(given)) = advancedStats
        /\ \A s \in {untimed, unplanned} :
               /\ EquityData(s) = equityData
               /\ MonthlyData(s) = monthlyData
               /\ DayOfWeekAnalysis(s) = dayOfWeekAnalysis
               /\ HourlyAnalysis(s) = hourlyAnalysis
               /\ RollingWinRate(s) = rollingWinRate
        /\ RiskRewardScatter(untimed) = riskRewardScatter
        /\ TradeDurationData(unplanned) = tradeDurationData
        /\ advancedStats.totalTrades = Len(filteredTrades)
        /\ Len(equityData) = Len(filteredTrades)
        /\ TradesCounted(monthlyData) = Len(filteredTrades)
        /\ TradesCounted(hourlyAnalysis) = Len(filteredTrades)

\* A losing trade without closeDate and takeProfit has been analysed next
\* to a trade that has both: it is in the totals and in neither scatter.
C15_Witness ==
    /\ \E i \in 1..Len(filteredTrades) :
          /\ filteredTrades[i].closeDate = NoDate
          /\ filteredTrades[i].takeProfit = 0
          /\ filteredTrades[i].result < 0
    /\ Len(tradeDurationData) = 1
    /\ Len(riskRewardScatter) = 1
    /\ Len(filteredTrades) = 2
    /\ advancedStats.lossTrades = 1

\* The sum of the positive results of a list, and of its negative
\* results as a positive amount.
GrossProfit(s) ==
    LET Total[i \in 0..Len(s)] ==
            IF i = 0 THEN 0 ELSE Total[i - 1] + Max(s[i].result, 0)
    IN  Total[Len(s)]

GrossLoss(s) ==
    LET Total[i \in 0..Len(s)] ==
            IF i = 0 THEN 0 ELSE Total[i - 1] + Max(0 - s[i].result, 0)
    IN  Total[Len(s)]

\* C16 as stated: whenever gross loss is positive, the reported
\* profitFactor equals gross profit divided by gross loss.
C16_ProfitFactorRatio ==
    GrossLoss(filteredTrades) > 0 =>
        advancedStats.profitFactor =
            Frac(GrossProfit(filteredTrades), GrossLoss(filteredTrades))

\* C16 amended: whenever gross loss is positive, the reported
\* profitFactor equals gross profit divided by gross loss when that ratio
\* is at most 999, and 999 when the ratio is larger.
C16_ProfitFactorCapped ==
    GrossLoss(filteredTrades) > 0 =>
        advancedStats.profitFactor =
            (IF GrossProfit(filteredTrades) > 999 * GrossLoss(filteredTrades)
             THEN Num(999)
             ELSE Frac(GrossProfit(filteredTrades), GrossLoss(filteredTrades)))

\* A list with a loss whose gross profit is more than 999 times its gross
\* loss has been analysed.
C16_Witness ==
    /\ GrossLoss(filteredTrades) > 0
    /\ GrossProfit(filteredTrades) > 999 * GrossLoss(filteredTrades)
    /\ advancedStats.profitFactor = Num(999)

\* The Kelly formula of the specification on a list with wins and
\* losses: (p - (1 - p) / R) * 100, p the share of winning trades and R
\* the average win over the average loss.
KellyFormula(s) ==
    LET p == Frac(CountWins(s), Len(s))
        R == Frac(GrossProfit(s) * CountLosses(s), CountWins(s) * GrossLoss(s))
    IN  RMul(RSub(p, RDiv(RSub(Num(1), p), R)), Num(100))

\* C17: kellyPercent is ((winRate/100) - ((100 - winRate)/100) / avgRR) * 100
\* whenever the list has at least one win and one loss, and 0 otherwise;
\* it is not clamped.
C17_Kelly ==
    IF CountWins(filteredTrades) > 0 /\ CountLosses(filteredTrades) > 0
    THEN /\ advancedStats.kellyPercent = KellyFormula(filteredTrades)
         /\ advancedStats.kellyPercent =
                RMul(RSub(RDiv(advancedStats.winRate, Num(100)),
                          RDiv(RDiv(RSub(Num(100), advancedStats.winRate), Num(100)),
                               advancedStats.avgRR)),
                     Num(100))
    ELSE advancedStats.kellyPercent = Num(0)

\* A list with a win and a loss whose Kelly percentage is negative has
\* been analysed.
C17_Witness ==
    /\ CountWins(filteredTrades) > 0
    /\ CountLosses(filteredTrades) > 0
    /\ advancedStats.kellyPercent.n < 0

\* C18: for every non-empty filtered list, expectancy is the average P&L
\* per trade: expectancy times the number of trades equals totalPnL, lists
\* with trades of result 0 included.  (The loss term is weighted with
\* 100 - winRate, which counts break-even trades as losses, so this does
\* not hold.)
C18_ExpectancyIsMean ==
    Len(filteredTrades) > 0 =>
        RMul(advancedStats.expectancy, Num(advancedStats.totalTrades))
            = Num(advancedStats.totalPnL)

\* C19 as stated: with n trades and window w = min(20, n) >= 5,
\* rollingWinRate has one point fewer than n - w + 1.
C19_OneFewerPoints ==
    LET n == Len(filteredTrades)
        w == IF n < 20 THEN n ELSE 20
    IN  w >= 5 => Len(rollingWinRate) = (n - w + 1) - 1

\* C19 amended: with n trades and window w = min(20, n) >= 5,
\* rollingWinRate has exactly n - w + 1 points, one for each of the trades
\* w, w + 1, ..., n in ascending order.
C19_RollingPoints ==
    LET n == Len(filteredTrades)
        w == IF n < 20 THEN n ELSE 20
    IN  w >= 5 =>
            /\ Len(rollingWinRate) = n - w + 1
            /\ \A i \in 1..Len(rollingWinRate) : rollingWinRate[i].trade = w + i - 1

\* 21 trades have been analysed: the window is 20 and there are 2 points.
C19_Witness ==
    /\ Len(filteredTrades) = 21
    /\ Len(rollingWinRate) = 2
    /\ rollingWinRate[1].trade = 20
    /\ rollingWinRate[2].trade = 21

\* The labels of the 24 hours, in order.
HourLabels ==
    <<"00:00", "01:00", "02:00", "03:00", "04:00", "05:00", "06:00", "07:00",
      "08:00", "09:00", "10:00", "11:00", "12:00", "13:00", "14:00", "15:00",
      "16:00", "17:00", "18:00", "19:00", "20:00", "21:00", "22:00", "23:00">>

\* The hour of day of an instant in minutes.
HourOf(ts) == (ts % (24 * 60)) \div 60

\* The positions of the filtered trades opened in hour h.
OpenedIn(h) ==
    {i \in 1..Len(filteredTrades) : HourOf(filteredTrades[i].openDate) = h}

\* C20: hourlyAnalysis has exactly 24 entries, one per hour 0..23 in
\* ascending order; the entry of hour h counts exactly the trades whose
\* openDate hour is h, and an hour without trades has trades, winRate,
\* avgPnL and totalPnL all 0.
C20_HourlyBuckets ==
    /\ Len(hourlyAnalysis) = 24
    /\ \A h \in 0..23 :
          LET entry == hourlyAnalysis[h + 1]
              opened == SelectSeq(filteredTrades, LAMBDA t : HourOf(t.openDate) = h)
          IN  /\ entry.hour = HourLabels[h + 1]
              /\ entry.trades = Cardinality(OpenedIn(h))
              /\ entry.totalPnL = GrossProfit(opened) - GrossLoss(opened)
              /\ RMul(entry.winRate, Num(entry.trades)) = Num(100 * CountWins(opened))
              /\ RMul(entry.avgPnL, Num(entry.trades)) = Num(entry.totalPnL)
              /\ OpenedIn(h) = {} => BucketIsZero(entry)

\* Two trades opened in different hours have been analysed, one of them
\* recorded (timestamp) in an hour in which no trade was opened.
C20_Witness ==
    \E i, j \in 1..Len(filteredTrades) :
        /\ HourOf(filteredTrades[i].openDate) # HourOf(filteredTrades[j].openDate)
        /\ OpenedIn(HourOf(filteredTrades[i].timestamp)) = {}
        /\ hourlyAnalysis[HourOf(filteredTrades[i].openDate) + 1].trades = 1
        /\ hourlyAnalysis[HourOf(filteredTrades[j].openDate) + 1].trades = 1
        /\ hourlyAnalysis[HourOf(filteredTrades[i].timestamp) + 1].trades = 0

\* The minutes between openDate and closeDate that a row of the duration
\* scatter stands for.
ElapsedMinutes(row) ==
    RMul(row.duration,
         Num(CASE row.unit = "minutes" -> 1
               [] row.unit = "hours" -> 60
               [] row.unit = "days" -> 24 * 60))

\* C21: the rows of tradeDurationData are in ascending order of elapsed
\* time (closeDate - openDate), whatever unit each row is shown in.  (The
\* rows are sorted by the displayed number, so this does not hold.)
C21_SortedByElapsedTime ==
    \A i, j \in 1..Len(tradeDurationData) :
        i < j => RLe(ElapsedMinutes(tradeDurationData[i]),
                     ElapsedMinutes(tradeDurationData[j]))

\* The sums of the least-squares fit over the rows of the duration
\* scatter: x is the shown duration, y the profit.
FitSum(term(_)) ==
    LET Total[i \in 0..Len(tradeDurationData)] ==
            IF i = 0 THEN Num(0)
            ELSE RAdd(Total[i - 1], term(tradeDurationData[i]))
    IN  Total[Len(tradeDurationData)]

FitN == Num(Len(tradeDurationData))

FitSumX == FitSum(LAMBDA r : r.duration)

FitSumY == FitSum(LAMBDA r : r.profit)

FitSumXY == FitSum(LAMBDA r : RMul(r.duration, r.profit))

FitSumXX == FitSum(LAMBDA r : RMul(r.duration, r.duration))

FitDenominator == RSub(RMul(FitN, FitSumXX), RMul(FitSumX, FitSumX))

FitSlope ==
    RDiv(RSub(RMul(FitN, FitSumXY), RMul(FitSumX, FitSumY)), FitDenominator)

FitIntercept == RDiv(RSub(FitSumY, RMul(FitSlope, FitSumX)), FitN)

\* C22: trendLineData is empty when the duration scatter has fewer than 2
\* rows or the least-squares denominator n * sum(x^2) - (sum x)^2 is zero;
\* otherwise it has exactly two points, at the smallest and the largest
\* duration, each on the line slope * duration + intercept.
C22_TrendLine ==
    IF Len(tradeDurationData) < 2 \/ FitDenominator = Num(0)
    THEN trendLineData = <<>>
    ELSE /\ Len(trendLineData) = 2
         /\ \A i \in 1..Len(tradeDurationData) :
               /\ RLe(trendLineData[1].duration, tradeDurationData[i].duration)
               /\ RLe(tradeDurationData[i].duration, trendLineData[2].duration)
         /\ \A k \in 1..2 :
               /\ \E i \in 1..Len(tradeDurationData) :
                     tradeDurationData[i].duration = trendLineData[k].duration
               /\ trendLineData[k].trendProfit =
                      RAdd(RMul(FitSlope, trendLineData[k].duration), FitIntercept)

\* Two trades shown with the same duration have been analysed: the
\* denominator is zero and no trend line is emitted.
C22_Witness ==
    /\ Len(tradeDurationData) = 2
    /\ tradeDurationData[1].duration = tradeDurationData[2].duration
    /\ tradeDurationData[1].profit # tradeDurationData[2].profit
    /\ FitDenominator = Num(0)
    /\ trendLineData = <<>>

\* The cumulative P&L after the first k filtered trades.
CumulativePnL(k) ==
    LET Total[i \in 0..k] ==
            IF i = 0 THEN 0 ELSE Total[i - 1] + filteredTrades[i].result
    IN  Total[k]

\* The largest cumulative P&L seen in the first k trades, at least 0.
PeakAfter(k) ==
    LET seen == {0} \cup {CumulativePnL(j) : j \in 1..k}
    IN  CHOOSE p \in seen : \A q \in seen : q <= p

\* The drawdowns of all prefixes, and their percentages of the peak where
\* the peak is positive.
PrefixDrawdowns ==
    {0} \cup {PeakAfter(k) - CumulativePnL(k) : k \in 1..Len(filteredTrades)}

PrefixDrawdownPercents ==
    {Num(0)} \cup
    {Frac((PeakAfter(k) - CumulativePnL(k)) * 100, PeakAfter(k)) :
        k \in {j \in 1..Len(filteredTrades) : PeakAfter(j) > 0}}

\* C23: over the trades in ascending timestamp order, with the peak
\* starting at 0, maxDrawdown is the maximum over the prefixes of the peak
\* so far minus the cumulative P&L, and maxDrawdownPercent the maximum of
\* drawdown / peak * 100 over the prefixes with a positive peak, 0 when
\* the cumulative P&L is never positive.
C23_MaxDrawdown ==
    /\ \A i, j \in 1..Len(filteredTrades) :
          i < j => filteredTrades[i].timestamp <= filteredTrades[j].timestamp
    /\ advancedStats.maxDrawdown \in PrefixDrawdowns
    /\ \A d \in PrefixDrawdowns : d <= advancedStats.maxDrawdown
    /\ advancedStats.maxDrawdownPercent \in PrefixDrawdownPercents
    /\ \A p \in PrefixDrawdownPercents : RLe(p, advancedStats.maxDrawdownPercent)
    /\ (\A k \in 1..Len(filteredTrades) : CumulativePnL(k) <= 0)
          => advancedStats.maxDrawdownPercent = Num(0)

\* Three trades handed over newest first whose curve first falls below
\* 0, then rises, then falls: the largest drawdown is the last one.
C23_Witness ==
    /\ Len(filteredTrades) = 3
    /\ filteredTrades[1].timestamp < filteredTrades[3].timestamp
    /\ CumulativePnL(1) < 0
    /\ CumulativePnL(2) > 0
    /\ CumulativePnL(3) < CumulativePnL(2)
    /\ advancedStats.maxDrawdown = CumulativePnL(2) - CumulativePnL(3)
    /\ advancedStats.maxDrawdown > 0 - CumulativePnL(1)
    /\ advancedStats.maxDrawdownPercent.n > 0

\* C24: the current streak never exceeds the corresponding maximum, lists
\* with equal timestamps included.  (The two computations order trades of
\* equal timestamp differently, so this does not hold.)
C24_CurrentStreakBounded ==
    /\ advancedStats.currentStreak.type = "win"
          => advancedStats.currentStreak.count <= advancedStats.consecutiveWins
    /\ advancedStats.currentStreak.type = "loss"
          => advancedStats.currentStreak.count <= advancedStats.consecutiveLosses

\* C25: the insert of the default 'Main Account' is issued at most once,
\* whatever the interleaving of fetches, realtime events and addAccount.
C25_DefaultAccountOnce == defaultInsertsIssued <= 1

\* C26: the sample trades are inserted only into an empty table, and the
\* insert is issued at most once in a session.
C26_SampleTradesOnce == sampleInsertsIssued <= 1 /\ ~sampleIntoTable

NoFetchInFlight ==
    \A i \in 1..Len(tradeFetches) : tradeFetches[i].phase \in {"done", "failed"}

\* C27: once no fetch is in flight, the trades state holds what the most
\* recently issued fetchTrades read.
C27_LatestFetchWins ==
    (NoFetchInFlight /\ tradeFetches[Len(tradeFetches)].phase = "done")
        => hookTrades = tradeFetches[Len(tradeFetches)].data

\* C28: under period 'all' the Dashboard summary agrees with Statistics:
\* the same totalPnL, the same winRate, and Dashboard's riskReward is
\* Statistics' avgRR.
C28_DashboardAgrees ==
    selectedPeriod = "all" =>
        /\ dashboardStats.totalPnL = advancedStats.totalPnL
        /\ dashboardStats.winRate = advancedStats.winRate
        /\ dashboardStats.riskReward = advancedStats.avgRR

\* C29: maxDrawdownPercent lies between 0 and 100 inclusive.
C29_DrawdownPercentInRange ==
    /\ RLe(Num(0), advancedStats.maxDrawdownPercent)
    /\ RLe(advancedStats.maxDrawdownPercent, Num(100))

PnLCounted(view) ==
    LET Total[i \in 0..Len(view)] ==
            IF i = 0 THEN 0 ELSE Total[i - 1] + view[i].totalPnL
    IN  Total[Len(view)]

MondayToFriday ==
    {k \in 1..Len(filteredTrades) :
        \E i \in 1..5 : OnWeekday(filteredTrades[k], i)}

\* C30: every filtered trade is in exactly one hour bucket and one month
\* bucket, and every filtered trade of Monday to Friday in one weekday
\* bucket: the hourly counts sum to the number of filtered trades and the
\* hourly totalPnL to totalPnL, the monthly counts sum to the number of
\* filtered trades, the five weekday counts to the number of filtered
\* trades whose timestamp is on Monday to Friday.
C30_BucketConservation ==
    /\ TradesCounted(hourlyAnalysis) = Len(filteredTrades)
    /\ PnLCounted(hourlyAnalysis) = advancedStats.totalPnL
    /\ TradesCounted(monthlyData) = Len(filteredTrades)
    /\ TradesCounted(dayOfWeekAnalysis) = Cardinality(MondayToFriday)

C30_Witness ==
    /\ Len(filteredTrades) = 3
    /\ Cardinality(MondayToFriday) = 1
    /\ Len(monthlyData) > 1
    /\ Cardinality({h \in 1..Len(hourlyAnalysis) : hourlyAnalysis[h].trades > 0}) > 1
    /\ \E k \in 1..Len(filteredTrades) : filteredTrades[k].result = 0

=============================================================================
